---- MODULE Spec2Model ----
(***************************************************************************)
(* Roster spreadsheet to calendar: backend/utils/excel.py (date and shift  *)
(* time parsing, grid scanning, find_shifts), backend/utils/helpers.py,    *)
(* backend/utils/ics_gen.py (generate_ics) and backend/app.py (the         *)
(* /api/process handler).                                                  *)
(*                                                                         *)
(* Python strings are sequences of one-character strings, so that          *)
(* splitting, digit filtering, lower-casing, regular expressions and       *)
(* strptime/strftime are computed character by character.                  *)
(* A duration is kept in minutes: the code's float hours are minutes / 60. *)
(***************************************************************************)
EXTENDS Integers, Sequences, FiniteSets, TLC

VARIABLES
    pc,               \* position of the modelled call
    today,            \* datetime.today(): [year, month, day]
    arg_shift_time,   \* argument of extract_shift_details / is_shift_time_like
    ret_details,      \* outcome of extract_shift_details
    ret_time_like,    \* value returned by is_shift_time_like
    arg_date_str,     \* argument of fix_date
    ret_fixed,        \* outcome of excel.fix_date
    ret_fixed_h,      \* outcome of helpers.fix_date
    arg_data_frames,  \* find_shifts: the sheets, in dictionary order, as [title, df]
    arg_names,        \* find_shifts: names, [single |-> it is one str, items |-> the names]
    ret_shifts,       \* outcome of find_shifts
    ret_ics,          \* outcome of generate_ics on the returned shifts
    arg_data,         \* process_file: the request body
    env_download_ok,  \* process_file: requests.get and raise_for_status succeed
    env_file,         \* process_file: the downloaded stream
    ret_status,       \* process_file: status code of the response
    arg_date_positions, \* argument of group_dates_into_sections
    ret_sections,     \* value returned by group_dates_into_sections
    arg_df,           \* argument of find_dates
    ret_dates         \* outcome of find_dates

time_vars == <<arg_shift_time, ret_details, ret_time_like>>
date_vars == <<arg_date_str, ret_fixed, ret_fixed_h>>
scan_vars == <<arg_data_frames, arg_names, ret_shifts, ret_ics>>
api_vars == <<arg_data, env_download_ok, env_file, ret_status>>
grid_vars == <<arg_date_positions, ret_sections, arg_df, ret_dates>>
vars == <<pc, today, time_vars, date_vars, scan_vars, api_vars, grid_vars>>

(***************************************************************************)
(* Python values and strings                                               *)
(***************************************************************************)
Digits == <<"0", "1", "2", "3", "4", "5", "6", "7", "8", "9">>
UpperCase == <<"A", "B", "C", "D", "E", "F", "G", "H", "I", "J", "K", "L", "M",
               "N", "O", "P", "Q", "R", "S", "T", "U", "V", "W", "X", "Y", "Z">>
LowerCase == <<"a", "b", "c", "d", "e", "f", "g", "h", "i", "j", "k", "l", "m",
               "n", "o", "p", "q", "r", "s", "t", "u", "v", "w", "x", "y", "z">>

IsDigit(c) == \E i \in 1..Len(Digits) : Digits[i] = c
DigitVal(c) == (CHOOSE i \in 1..Len(Digits) : Digits[i] = c) - 1
IsSpace(c) == c \in {" ", "\t", "\n"}

\* str.lower()
LowerChar(c) ==
    IF \E i \in 1..Len(UpperCase) : UpperCase[i] = c
    THEN LowerCase[CHOOSE i \in 1..Len(UpperCase) : UpperCase[i] = c]
    ELSE c
Lower(s) == [i \in 1..Len(s) |-> LowerChar(s[i])]

\* s[i:j] with 1-based inclusive bounds
Slice(s, i, j) == IF j < i THEN <<>> ELSE SubSeq(s, i, j)

\* str.startswith(p)
StartsWith(s, p) == Len(p) <= Len(s) /\ SubSeq(s, 1, Len(p)) = p

\* sub in s
Contains(s, sub) ==
    \E i \in 0..(Len(s) - Len(sub)) : SubSeq(s, i + 1, i + Len(sub)) = sub

\* str.strip()
Strip(s) ==
    LET keep == {i \in 1..Len(s) : ~IsSpace(s[i])}
    IN  IF keep = {} THEN <<>>
        ELSE Slice(s, CHOOSE i \in keep : \A j \in keep : i <= j,
                      CHOOSE i \in keep : \A j \in keep : j <= i)

\* ''.join(filter(str.isdigit, s))
RECURSIVE FilterDigits(_)
FilterDigits(s) ==
    IF s = <<>> THEN <<>>
    ELSE (IF IsDigit(Head(s)) THEN <<Head(s)>> ELSE <<>>) \o FilterDigits(Tail(s))

\* str.split(): the whitespace-separated words of s
RECURSIVE SplitFrom(_, _, _)
SplitFrom(s, i, word) ==
    IF i > Len(s) THEN (IF word = <<>> THEN <<>> ELSE <<word>>)
    ELSE IF IsSpace(s[i])
         THEN (IF word = <<>> THEN <<>> ELSE <<word>>) \o SplitFrom(s, i + 1, <<>>)
         ELSE SplitFrom(s, i + 1, Append(word, s[i]))
Split(s) == SplitFrom(s, 1, <<>>)

\* str.split(sep) for a one-character separator
RECURSIVE SplitOnFrom(_, _, _, _)
SplitOnFrom(s, sep, i, word) ==
    IF i > Len(s) THEN <<word>>
    ELSE IF s[i] = sep THEN <<word>> \o SplitOnFrom(s, sep, i + 1, <<>>)
         ELSE SplitOnFrom(s, sep, i + 1, Append(word, s[i]))
SplitOn(s, sep) == SplitOnFrom(s, sep, 1, <<>>)

AllDigits(s) == \A i \in 1..Len(s) : IsDigit(s[i])

\* int(s) for a string of digits
RECURSIVE StrToInt(_)
StrToInt(s) ==
    IF s = <<>> THEN 0
    ELSE 10 * StrToInt(SubSeq(s, 1, Len(s) - 1)) + DigitVal(s[Len(s)])

\* str(n) for n >= 0
RECURSIVE IntToStr(_)
IntToStr(n) ==
    IF n < 10 THEN <<Digits[n + 1]>>
    ELSE IntToStr(n \div 10) \o <<Digits[(n % 10) + 1]>>

\* str.zfill(width)
RECURSIVE ZFill(_, _)
ZFill(s, width) == IF Len(s) >= width THEN s ELSE ZFill(<<"0">> \o s, width)

\* A cell value: NaN (empty), text, a number, or a native date/time.
NaN == [t |-> "nan", s |-> <<>>, n |-> 0]
None == [t |-> "none", s |-> <<>>, n |-> 0]
Str(s) == [t |-> "str", s |-> s, n |-> 0]
Num(n) == [t |-> "num", s |-> <<>>, n |-> n]
\* a native Timestamp; s holds its str() rendering, 'YYYY-MM-DD 00:00:00'
Timestamp(y, m, d) ==
    [t |-> "datetime",
     s |-> ZFill(IntToStr(y), 4) \o <<"-">> \o ZFill(IntToStr(m), 2) \o <<"-">>
           \o ZFill(IntToStr(d), 2) \o <<" ", "0", "0", ":", "0", "0", ":", "0", "0">>,
     n |-> 0]

\* pd.isna(value) / pd.notna(value)
IsNa(v) == v.t \in {"nan", "none"}
NotNa(v) == ~IsNa(v)
\* isinstance(value, str)
IsStr(v) == v.t = "str"
\* str(value)
PyStr(v) ==
    CASE v.t = "str" -> v.s
      [] v.t = "num" -> IntToStr(v.n)
      [] v.t = "datetime" -> v.s
      [] v.t = "none" -> <<"N", "o", "n", "e">>
      [] OTHER -> <<"n", "a", "n">>

(***************************************************************************)
(* Calendar                                                                *)
(***************************************************************************)
IsLeap(y) == (y % 4 = 0 /\ y % 100 # 0) \/ y % 400 = 0
DaysInMonth(m, y) ==
    CASE m \in {4, 6, 9, 11} -> 30
      [] m = 2 -> (IF IsLeap(y) THEN 29 ELSE 28)
      [] OTHER -> 31
\* the date exists in the calendar (what the datetime constructor accepts)
ValidDate(y, m, d) == y >= 1 /\ m \in 1..12 /\ d >= 1 /\ d <= DaysInMonth(m, y)
\* a.date() < b.date()
DateBefore(a, b) ==
    \/ a.year < b.year
    \/ a.year = b.year /\ a.month < b.month
    \/ a.year = b.year /\ a.month = b.month /\ a.day < b.day

\* Outcome of a call: a returned value or a raised exception.
Returned(v) == [exc |-> "none", val |-> v]
Raised(e) == [exc |-> e, val |-> <<>>]

(***************************************************************************)
(* Date normalisation: fix_date, is_date_in_past, is_date_like             *)
(***************************************************************************)
APRIL_FOOLS == <<"A", "P", "R", "I", "L", " ", "F", "O", "O", "L", "S", "!">>

\* month_map of excel.fix_date, as (name, number) pairs
month_map ==
    << << <<"J", "a", "n">>, <<"0", "1">> >>,
       << <<"J", "a", "n", "u", "a", "r", "y">>, <<"0", "1">> >>,
       << <<"F", "e", "b">>, <<"0", "2">> >>,
       << <<"F", "e", "b", "r", "u", "a", "r", "y">>, <<"0", "2">> >>,
       << <<"M", "a", "r">>, <<"0", "3">> >>,
       << <<"M", "a", "r", "c", "h">>, <<"0", "3">> >>,
       << <<"A", "p", "r">>, <<"0", "4">> >>,
       << <<"A", "p", "r", "i", "l">>, <<"0", "4">> >>,
       << <<"M", "a", "y">>, <<"0", "5">> >>,
       << <<"J", "u", "n">>, <<"0", "6">> >>,
       << <<"J", "u", "n", "e">>, <<"0", "6">> >>,
       << <<"J", "u", "l">>, <<"0", "7">> >>,
       << <<"J", "u", "l", "y">>, <<"0", "7">> >>,
       << <<"A", "u", "g">>, <<"0", "8">> >>,
       << <<"A", "u", "g", "u", "s", "t">>, <<"0", "8">> >>,
       << <<"S", "e", "p">>, <<"0", "9">> >>,
       << <<"S", "e", "p", "t", "e", "m", "b", "e", "r">>, <<"0", "9">> >>,
       << <<"O", "c", "t">>, <<"1", "0">> >>,
       << <<"O", "c", "t", "o", "b", "e", "r">>, <<"1", "0">> >>,
       << <<"N", "o", "v">>, <<"1", "1">> >>,
       << <<"N", "o", "v", "e", "m", "b", "e", "r">>, <<"1", "1">> >>,
       << <<"D", "e", "c">>, <<"1", "2">> >>,
       << <<"D", "e", "c", "e", "m", "b", "e", "r">>, <<"1", "2">> >> >>

\* month_map of helpers.fix_date
helpers_month_map ==
    << << <<"J", "a", "n">>, <<"0", "1">> >>,
       << <<"F", "e", "b">>, <<"0", "2">> >>,
       << <<"M", "a", "r">>, <<"0", "3">> >>,
       << <<"A", "p", "r">>, <<"0", "4">> >>,
       << <<"M", "a", "y">>, <<"0", "5">> >>,
       << <<"J", "u", "n">>, <<"0", "6">> >>,
       << <<"J", "u", "l">>, <<"0", "7">> >>,
       << <<"A", "u", "g">>, <<"0", "8">> >>,
       << <<"S", "e", "p">>, <<"0", "9">> >>,
       << <<"O", "c", "t">>, <<"1", "0">> >>,
       << <<"N", "o", "v">>, <<"1", "1">> >>,
       << <<"D", "e", "c">>, <<"1", "2">> >>,
       << <<"M", "a", "r", "c", "h">>, <<"0", "3">> >>,
       << <<"A", "p", "r", "i", "l">>, <<"0", "4">> >> >>

InMap(map, name) == \E i \in 1..Len(map) : map[i][1] = name
MapGet(map, name) == map[CHOOSE i \in 1..Len(map) : map[i][1] = name][2]

\* re.match(r"^\d{4}-\d{2}-\d{2}$", s): '$' also matches before one final newline
IsoShape(s) ==
    /\ Len(s) = 10
    /\ \A i \in {1, 2, 3, 4, 6, 7, 9, 10} : IsDigit(s[i])
    /\ s[5] = "-" /\ s[8] = "-"
IsoRegexMatch(s) ==
    \/ IsoShape(s)
    \/ Len(s) = 11 /\ s[11] = "\n" /\ IsoShape(SubSeq(s, 1, 10))

\* strptime directives: %d, %m and %Y accept these digit fields
DayField(f) ==
    \/ Len(f) = 2 /\ AllDigits(f) /\ StrToInt(f) \in 1..31
    \/ Len(f) = 1 /\ AllDigits(f) /\ StrToInt(f) \in 1..9
    \/ Len(f) = 2 /\ f[1] = " " /\ IsDigit(f[2]) /\ StrToInt(<<f[2]>>) \in 1..9
MonthField(f) ==
    \/ Len(f) = 2 /\ AllDigits(f) /\ StrToInt(f) \in 1..12
    \/ Len(f) = 1 /\ AllDigits(f) /\ StrToInt(f) \in 1..9
YearField(f) == Len(f) = 4 /\ AllDigits(f)

\* datetime.strptime(s, fmt) for the formats "%Y-%m-%d" (sep "-", year first)
\* and "%d/%m/%Y" (sep "/", day first): the date, or ValueError
Strptime(s, sep, yearFirst) ==
    LET f == SplitOn(s, sep)
        fy == IF yearFirst THEN f[1] ELSE f[3]
        fd == IF yearFirst THEN f[3] ELSE f[1]
        date == [year |-> StrToInt(fy), month |-> StrToInt(f[2]),
                 day |-> StrToInt(FilterDigits(fd))]
    IN  IF Len(f) = 3 /\ YearField(fy) /\ MonthField(f[2]) /\ DayField(fd)
           /\ ValidDate(date.year, date.month, date.day)
        THEN Returned(date)
        ELSE Raised("ValueError")

\* date_obj.strftime("%d/%m/%Y")
StrftimeDMY(date) ==
    ZFill(IntToStr(date.day), 2) \o <<"/">> \o ZFill(IntToStr(date.month), 2)
        \o <<"/">> \o IntToStr(date.year)

\* the year inference with the December branch of lines 125-126 left out
InferYearNoRollback(now, month_number) ==
    IF now.month \in {10, 11, 12} /\ month_number = <<"0", "1">>
    THEN now.year + 1
    ELSE now.year

\* lines 125-130: the year of a day-plus-month token
InferYear(now, month_number) ==
    IF now.month \in {1, 2, 3} /\ month_number = <<"1", "2">>
    THEN now.year - 1
    ELSE IF now.month \in {10, 11, 12} /\ month_number = <<"0", "1">>
         THEN now.year + 1
         ELSE now.year

\* lines 96-132, shared by both fix_date variants
FixDayMonth(now, s, map) ==
    LET parts == Split(s)
        day == FilterDigits(parts[1])
    IN  IF Len(parts) # 2 THEN Raised("ValueError")
        ELSE IF day = <<>> THEN Raised("ValueError")
        ELSE IF ~InMap(map, parts[2]) THEN Raised("ValueError")
        ELSE Returned(ZFill(day, 2) \o <<"/">> \o MapGet(map, parts[2]) \o <<"/">>
                      \o IntToStr(InferYear(now, MapGet(map, parts[2]))))

\* excel.fix_date(date_str) at the instant `now`
fix_date(now, v) ==
    IF IsStr(v) /\ v.s = APRIL_FOOLS
    THEN Returned(<<"0", "1", "/", "0", "4", "/">> \o IntToStr(now.year))
    ELSE IF ~IsStr(v) THEN Raised("TypeError")   \* re.match on a non-string
    ELSE IF IsoRegexMatch(v.s)
         THEN LET d == Strptime(v.s, "-", TRUE)
              IN  IF d.exc = "none" THEN Returned(StrftimeDMY(d.val)) ELSE d
         ELSE FixDayMonth(now, v.s, month_map)

\* helpers.fix_date(date_str) at the instant `now`
helpers_fix_date(now, v) ==
    IF IsStr(v) /\ v.s = APRIL_FOOLS
    THEN Returned(<<"0", "1", "/", "0", "4", "/">> \o IntToStr(now.year))
    ELSE IF ~IsStr(v) THEN Raised("AttributeError")   \* no split() on a non-string
    ELSE FixDayMonth(now, v.s, helpers_month_map)

\* the comparison of line 145 the wrong way round
is_date_in_past_reversed(now, s) ==
    LET d == Strptime(s, "/", FALSE)
    IN  IF d.exc = "none" THEN Returned(DateBefore(now, d.val)) ELSE d

\* is_date_in_past(date_str) at the instant `now`
is_date_in_past(now, s) ==
    LET d == Strptime(s, "/", FALSE)
    IN  IF d.exc = "none" THEN Returned(DateBefore(d.val, now)) ELSE d

\* is_date_like(value): the fixed date, or None (exc "none", val <<>>)
is_date_like(now, v) ==
    LET Caught(r) == IF r.exc = "ValueError" THEN Returned(<<>>) ELSE r
    IN  IF IsNa(v) THEN Returned(<<>>) ELSE Caught(fix_date(now, v))

(***************************************************************************)
(* Shift times: extract_shift_details, is_shift_time_like                  *)
(***************************************************************************)
EXCLUDED_PREFIXES == << <<"o", "p", "e", "n">>, <<"c", "l", "o", "s", "e">>, <<"f", "l", "e", "x">> >>

\* \d{1,2}:\d{2} at position i of s: the length matched, 0 for no match
ClockAt(s, i) ==
    IF i + 4 <= Len(s) /\ IsDigit(s[i]) /\ IsDigit(s[i + 1]) /\ s[i + 2] = ":"
       /\ IsDigit(s[i + 3]) /\ IsDigit(s[i + 4])
    THEN 5
    ELSE IF i + 3 <= Len(s) /\ IsDigit(s[i]) /\ s[i + 1] = ":"
            /\ IsDigit(s[i + 2]) /\ IsDigit(s[i + 3])
         THEN 4
         ELSE 0

\* (\d{1,2}:\d{2})-(\d{1,2}:\d{2}) at position i of s: the two groups and the
\* position after the match; ok FALSE for no match
RangeAt(s, i) ==
    LET a == ClockAt(s, i)
        b == ClockAt(s, i + a + 1)
    IN  IF a > 0 /\ i + a <= Len(s) /\ s[i + a] = "-" /\ b > 0
        THEN [ok |-> TRUE, start |-> SubSeq(s, i, i + a - 1),
              end |-> SubSeq(s, i + a + 1, i + a + b), next |-> i + a + b + 1]
        ELSE [ok |-> FALSE, start |-> <<>>, end |-> <<>>, next |-> i]

\* re.search in place of re.match: the first range anywhere in s
TimeRangeSearch(s) ==
    LET hits == {i \in 1..Len(s) : RangeAt(s, i).ok}
    IN  IF hits = {} THEN RangeAt(s, 1)
        ELSE RangeAt(s, CHOOSE i \in hits : \A j \in hits : i <= j)

\* re.match(r"(\d{1,2}:\d{2})-(\d{1,2}:\d{2})", s): anchored at the start only
TimeRangeMatch(s) == RangeAt(s, 1)

\* re.match(r"^\d{1,2}:\d{2}-\d{1,2}:\d{2}$", s): the whole string
\* ('$' also matches before one final newline)
TimeRangeFullMatch(s) ==
    LET m == RangeAt(s, 1)
    IN  m.ok /\ (m.next = Len(s) + 1 \/ (m.next = Len(s) /\ s[Len(s)] = "\n"))

\* datetime.strptime(s, "%H:%M"): minutes since midnight, or ValueError
StrptimeHM(s) ==
    LET f == SplitOn(s, ":")
    IN  IF /\ Len(f) = 2
           /\ Len(f[1]) \in {1, 2} /\ AllDigits(f[1]) /\ StrToInt(f[1]) \in 0..23
           /\ Len(f[2]) \in {1, 2} /\ AllDigits(f[2]) /\ StrToInt(f[2]) \in 0..59
        THEN Returned(60 * StrToInt(f[1]) + StrToInt(f[2]))
        ELSE Raised("ValueError")

\* t.strftime("%H:%M") for t in minutes since midnight
StrftimeHM(t) ==
    ZFill(IntToStr(t \div 60), 2) \o <<":">> \o ZFill(IntToStr(t % 60), 2)

\* The pair extract_shift_details returns: (None, None) or (start, duration)
NoDetails == [none |-> TRUE, start |-> <<>>, duration |-> 0]
Details(start, duration) == [none |-> FALSE, start |-> start, duration |-> duration]

\* the duration without the overnight correction of lines 167-168
ShiftDurationNoWrap(start, end) == end - start

\* lines 165-168: end - start, plus a day when negative (in minutes)
ShiftDuration(start, end) ==
    IF end - start < 0 THEN end - start + 24 * 60 ELSE end - start

\* extract_shift_details(shift_time)
extract_shift_details(v) ==
    IF ~IsStr(v) THEN Raised("TypeError")   \* re.match on a non-string
    ELSE LET m == TimeRangeMatch(v.s)
             st == StrptimeHM(m.start)
             en == StrptimeHM(m.end)
         IN  IF ~m.ok THEN Returned(NoDetails)
             ELSE IF st.exc # "none" \/ en.exc # "none" THEN Returned(NoDetails)
             ELSE Returned(Details(StrftimeHM(st.val), ShiftDuration(st.val, en.val)))

\* is_shift_time_like(value)
is_shift_time_like(v) ==
    IF IsNa(v) THEN FALSE
    ELSE LET value_str == Strip(PyStr(v))
         IN  IF \E i \in 1..Len(EXCLUDED_PREFIXES) :
                    StartsWith(Lower(value_str), EXCLUDED_PREFIXES[i])
             THEN FALSE
             ELSE TimeRangeFullMatch(value_str)

(***************************************************************************)
(* Grid scanning: find_dates, group_dates_into_sections, find_shift_times  *)
(* A DataFrame is a sequence of rows of cell values; the code's indices    *)
(* are 0-based.                                                            *)
(***************************************************************************)
MAX_DATE_ROWS == 5
DATE_ROW_OFFSET == 1

NRows(df) == Len(df)                                   \* df.shape[0]
NCols(df) == IF Len(df) = 0 THEN 0 ELSE Len(df[1])     \* df.shape[1]
IsEmptyDf(df) == NRows(df) = 0 \/ NCols(df) = 0        \* df.empty
Cell(df, row, col) == df[row + 1][col + 1]             \* df.iloc[row, col]

Min(a, b) == IF a < b THEN a ELSE b
Max(a, b) == IF a < b THEN b ELSE a

Pos(row, col, value) == [row |-> row, col |-> col, value |-> value]

\* lines 185-189 for one row: the date positions of columns col.. of that row,
\* or the exception is_date_like lets through
RECURSIVE RowDates(_, _, _, _)
RowDates(now, df, row, col) ==
    LET Collect(d, rest) ==
            IF d.exc # "none" THEN d
            ELSE IF rest.exc # "none" THEN rest
            ELSE IF d.val # <<>>
                 THEN Returned(<<Pos(row, col, Cell(df, row, col))>> \o rest.val)
                 ELSE rest
    IN  IF col >= NCols(df) THEN Returned(<<>>)
        ELSE Collect(is_date_like(now, Cell(df, row, col)),
                     RowDates(now, df, row, col + 1))

\* the row loop with the break of lines 191-192 left out
RECURSIVE FindDatesNoBreak(_, _, _)
FindDatesNoBreak(now, df, row) ==
    LET Collect(here, rest) ==
            IF here.exc # "none" THEN here
            ELSE IF rest.exc # "none" THEN rest
            ELSE Returned(here.val \o rest.val)
    IN  IF row >= Min(MAX_DATE_ROWS, NRows(df)) THEN Returned(<<>>)
        ELSE Collect(RowDates(now, df, row, 0), FindDatesNoBreak(now, df, row + 1))

\* lines 184-193 from row `row` on: stop after the first row that has a date
RECURSIVE FindDatesFrom(_, _, _)
FindDatesFrom(now, df, row) ==
    LET Break(here) ==
            IF here.exc # "none" THEN here
            ELSE IF here.val # <<>> THEN here
            ELSE FindDatesFrom(now, df, row + 1)
    IN  IF row >= Min(MAX_DATE_ROWS, NRows(df)) THEN Returned(<<>>)
        ELSE Break(RowDates(now, df, row, 0))

\* find_dates(df)
find_dates(now, df) == FindDatesFrom(now, df, 0)

\* list.sort(key=lambda x: x[1]): stable insertion by column
RECURSIVE InsertByCol(_, _)
InsertByCol(sorted, p) ==
    IF sorted = <<>> THEN <<p>>
    ELSE IF sorted[Len(sorted)].col <= p.col THEN Append(sorted, p)
         ELSE Append(InsertByCol(SubSeq(sorted, 1, Len(sorted) - 1), p),
                     sorted[Len(sorted)])
RECURSIVE SortByCol(_)
SortByCol(ps) ==
    IF ps = <<>> THEN <<>>
    ELSE InsertByCol(SortByCol(SubSeq(ps, 1, Len(ps) - 1)), ps[Len(ps)])

\* lines 210-215 from position i on: sections closed so far, the open section
RECURSIVE GroupFrom(_, _, _, _, _)
GroupFrom(ps, i, last_col, date_sections, current_section) ==
    IF i > Len(ps)
    THEN (IF current_section # <<>> THEN Append(date_sections, current_section)
          ELSE date_sections)
    ELSE IF ps[i].col - last_col > 1
         THEN GroupFrom(ps, i + 1, ps[i].col,
                        Append(date_sections, current_section), <<ps[i]>>)
         ELSE GroupFrom(ps, i + 1, ps[i].col,
                        date_sections, Append(current_section, ps[i]))

\* the grouping with the sort of line 208 left out
group_dates_unsorted(date_positions) ==
    IF date_positions = <<>> THEN <<>>
    ELSE GroupFrom(date_positions, 1, date_positions[1].col, <<>>, <<>>)

\* group_dates_into_sections(date_positions)
group_dates_into_sections(date_positions) ==
    IF date_positions = <<>> THEN <<>>
    ELSE LET ps == SortByCol(date_positions)
         IN  GroupFrom(ps, 1, ps[1].col, <<>>, <<>>)

\* find_shift_times(df, start_col): row-major over the two search columns
RECURSIVE ShiftTimesFrom(_, _, _, _)
ShiftTimesFrom(df, start_col, row, col) ==
    IF row >= NRows(df) THEN <<>>
    ELSE IF col > start_col THEN ShiftTimesFrom(df, start_col, row + 1, Max(0, start_col - 1))
    ELSE (IF is_shift_time_like(Cell(df, row, col))
          THEN <<Pos(row, col, Cell(df, row, col))>> ELSE <<>>)
         \o ShiftTimesFrom(df, start_col, row, col + 1)
find_shift_times(df, start_col) ==
    ShiftTimesFrom(df, start_col, 0, Max(0, start_col - 1))

(***************************************************************************)
(* find_shifts                                                             *)
(***************************************************************************)
\* A result dictionary, lines 344-351 and 373-380: a function of its keys
ShiftRecord(sheet, date, shift_time, start_time, duration, name) ==
    [k \in {"Sheet", "Date", "Shift Time", "Start Time", "Duration", "Name"} |->
        CASE k = "Sheet" -> sheet
          [] k = "Date" -> date
          [] k = "Shift Time" -> shift_time
          [] k = "Start Time" -> start_time
          [] k = "Duration" -> duration
          [] OTHER -> name]

\* bool(value) of a cell value
Truthy(v) ==
    CASE v.t = "str" -> v.s # <<>>
      [] v.t = "num" -> v.n # 0
      [] v.t = "none" -> FALSE
      [] OTHER -> TRUE

\* lines 282-284: names as a list of lower-cased strings
NormalizeNames(names_arg) ==
    [i \in 1..Len(names_arg.items) |-> Lower(names_arg.items[i])]

\* lines 329-330: the cell below the date, None past the last row
PrimaryValue(df, pos) ==
    IF pos.row + DATE_ROW_OFFSET < NRows(df)
    THEN Cell(df, pos.row + DATE_ROW_OFFSET, pos.col)
    ELSE None

\* lines 331-335: the first shift time of the primary row, None if there is none
PrimaryShiftTime(shift_time_positions, primary_dm_row) ==
    LET hits == {i \in 1..Len(shift_time_positions) :
                    shift_time_positions[i].row = primary_dm_row}
    IN  IF hits = {} THEN None
        ELSE shift_time_positions[CHOOSE i \in hits : \A j \in hits : i <= j].value

\* [name for name in names if name in text]
NamesIn(names, text) ==
    LET In(name) == Contains(text, name) IN SelectSeq(names, In)

\* one record per name of matching_names, in order
RecordsFor(matching_names, sheet_title, fixed_date, shift_time, d) ==
    [i \in 1..Len(matching_names) |->
        ShiftRecord(sheet_title, fixed_date, shift_time.s, d.start, d.duration,
                    matching_names[i])]

\* lines 337-353: the records of the Primary DM check, and whether the date
\* is finished (the `continue` of line 353)
PrimaryCheck(df, names, sheet_title, fixed_date, pos, shift_time_positions) ==
    LET primary_dm_value == PrimaryValue(df, pos)
        primary_dm_shift_time ==
            PrimaryShiftTime(shift_time_positions, pos.row + DATE_ROW_OFFSET)
        matching_names == NamesIn(names, Lower(PyStr(primary_dm_value)))
        Matched(d) ==
            IF d.exc # "none" THEN d
            ELSE IF d.val.none THEN Returned([recs |-> <<>>, done |-> TRUE])
            ELSE Returned([recs |-> RecordsFor(matching_names, sheet_title, fixed_date,
                                               primary_dm_shift_time, d.val),
                           done |-> TRUE])
    IN  IF ~(NotNa(primary_dm_value) /\ Truthy(primary_dm_shift_time))
        THEN Returned([recs |-> <<>>, done |-> FALSE])
        ELSE IF matching_names = <<>> THEN Returned([recs |-> <<>>, done |-> FALSE])
        ELSE Matched(extract_shift_details(primary_dm_shift_time))

\* lines 357-381 from shift time i on
RECURSIVE FallbackFrom(_, _, _, _, _, _, _, _, _)
FallbackFrom(df, names, sheet_title, fixed_date, pos, shift_time_positions, i, shift_found, acc) ==
    IF i > Len(shift_time_positions) THEN Returned(acc)
    ELSE IF shift_time_positions[i].row <= pos.row
    THEN FallbackFrom(df, names, sheet_title, fixed_date, pos, shift_time_positions,
                      i + 1, shift_found, acc)
    ELSE IF \A k \in 1..Len(names) : names[k] \in shift_found THEN Returned(acc)
    ELSE LET cell_value == Cell(df, shift_time_positions[i].row, pos.col)
             cell_str == Lower(PyStr(cell_value))
             Unfound(name) == Contains(cell_str, name) /\ name \notin shift_found
             matching_names ==
                 IF NotNa(cell_value) THEN SelectSeq(names, Unfound) ELSE <<>>
             Matched(d) ==
                 IF d.exc # "none" THEN d
                 ELSE IF d.val.none
                 THEN FallbackFrom(df, names, sheet_title, fixed_date, pos,
                                   shift_time_positions, i + 1, shift_found, acc)
                 ELSE FallbackFrom(df, names, sheet_title, fixed_date, pos,
                                   shift_time_positions, i + 1,
                                   shift_found \cup {matching_names[k] :
                                                       k \in 1..Len(matching_names)},
                                   acc \o RecordsFor(matching_names, sheet_title,
                                                     fixed_date,
                                                     shift_time_positions[i].value,
                                                     d.val))
         IN  IF matching_names = <<>>
             THEN FallbackFrom(df, names, sheet_title, fixed_date, pos,
                               shift_time_positions, i + 1, shift_found, acc)
             ELSE Matched(extract_shift_details(shift_time_positions[i].value))

\* lines 328-381: the fallback search, unless the Primary DM check raised or
\* finished the date
ScanFallback(df, names, sheet_title, fixed_date, pos, shift_time_positions, primary) ==
    IF primary.exc # "none" THEN primary
    ELSE IF primary.val.done THEN Returned(primary.val.recs)
    ELSE FallbackFrom(df, names, sheet_title, fixed_date, pos,
                      shift_time_positions, 1, {}, primary.val.recs)

\* lines 324-381: a past date is skipped, any other is searched
ScanCurrentDate(df, names, sheet_title, fixed_date, pos, shift_time_positions, past) ==
    IF past.exc # "none" THEN past
    ELSE IF past.val THEN Returned(<<>>)
    ELSE ScanFallback(df, names, sheet_title, fixed_date, pos, shift_time_positions,
                      PrimaryCheck(df, names, sheet_title, fixed_date, pos,
                                   shift_time_positions))

\* lines 323-381: the records of one date position, given what fix_date gave
ScanFixedDate(now, df, names, sheet_title, pos, shift_time_positions, fixed_date) ==
    IF fixed_date.exc # "none" THEN fixed_date
    ELSE ScanCurrentDate(df, names, sheet_title, fixed_date.val, pos,
                         shift_time_positions, is_date_in_past(now, fixed_date.val))

\* lines 322-381: the records of one date position
ScanDate(now, df, names, sheet_title, pos, shift_time_positions) ==
    ScanFixedDate(now, df, names, sheet_title, pos, shift_time_positions,
                  fix_date(now, pos.value))

\* the records of two consecutive parts of the scan: the first exception
\* ends find_shifts, otherwise the appended records follow in order
Extend(here, rest) ==
    IF here.exc # "none" THEN here
    ELSE IF rest.exc # "none" THEN rest
    ELSE Returned(here.val \o rest.val)

\* lines 321-381: the dates of one section from position i on
RECURSIVE ScanSectionFrom(_, _, _, _, _, _, _)
ScanSectionFrom(now, df, names, sheet_title, section, shift_time_positions, i) ==
    IF i > Len(section) THEN Returned(<<>>)
    ELSE Extend(ScanDate(now, df, names, sheet_title, section[i],
                         shift_time_positions),
                ScanSectionFrom(now, df, names, sheet_title, section,
                                shift_time_positions, i + 1))

\* lines 317-381: one section, skipped when it has no shift times
ScanSection(now, df, names, sheet_title, section, shift_time_positions) ==
    IF shift_time_positions = <<>> THEN Returned(<<>>)
    ELSE ScanSectionFrom(now, df, names, sheet_title, section, shift_time_positions, 1)

\* lines 307-381: the sections of one sheet from section i on
RECURSIVE ScanSectionsFrom(_, _, _, _, _, _)
ScanSectionsFrom(now, df, names, sheet_title, date_sections, i) ==
    IF i > Len(date_sections) THEN Returned(<<>>)
    ELSE Extend(IF date_sections[i] = <<>> THEN Returned(<<>>)
                ELSE ScanSection(now, df, names, sheet_title, date_sections[i],
                                 find_shift_times(df, date_sections[i][1].col)),
                ScanSectionsFrom(now, df, names, sheet_title, date_sections, i + 1))

\* lines 298-381: the records of one sheet, given what find_dates gave
ScanDatePositions(now, df, names, sheet_title, date_positions) ==
    IF date_positions.exc # "none" THEN date_positions
    ELSE IF date_positions.val = <<>> THEN Returned(<<>>)
    ELSE ScanSectionsFrom(now, df, names, sheet_title,
                          group_dates_into_sections(date_positions.val), 1)

\* lines 288-381: the records of one sheet
ScanSheet(now, names, sheet_title, df) ==
    IF IsEmptyDf(df) THEN Returned(<<>>)
    ELSE ScanDatePositions(now, df, names, sheet_title, find_dates(now, df))

\* lines 287-383 from sheet i on; the list is returned as accumulated
RECURSIVE ScanSheetsFrom(_, _, _, _)
ScanSheetsFrom(now, data_frames, names, i) ==
    IF i > Len(data_frames) THEN Returned(<<>>)
    ELSE Extend(ScanSheet(now, names, data_frames[i].title, data_frames[i].df),
                ScanSheetsFrom(now, data_frames, names, i + 1))

\* find_shifts(data_frames, names) at the instant `now`
find_shifts(now, data_frames, names_arg) ==
    ScanSheetsFrom(now, data_frames, NormalizeNames(names_arg), 1)

(***************************************************************************)
(* ics_gen.generate_ics                                                    *)
(***************************************************************************)
\* shift[key]: KeyError when the dictionary has no such key
GetItem(shift, key) ==
    IF key \in DOMAIN shift THEN Returned(shift[key]) ELSE Raised("KeyError")

\* lines 18-31 for one shift: the event, or the exception raised
ShiftEvent(shift, name_to_search) ==
    LET date_v == GetItem(shift, "Date")
        start_v == GetItem(shift, "Start Time")
        duration == GetItem(shift, "Duration")
        title == GetItem(shift, "Title")
        Event(shift_date, start_time) ==
            IF start_time.exc # "none" THEN start_time
            ELSE IF duration.exc # "none" THEN duration
            ELSE IF ~name_to_search.single THEN Raised("AttributeError")  \* list.lower()
            ELSE IF title.exc # "none" THEN title
            ELSE Returned([name |-> <<"s", "h", "i", "f", "t", " ", "[">> \o title.val
                                    \o <<"]">>,
                           begin |-> [date |-> shift_date, minute |-> start_time.val],
                           end |-> [date |-> shift_date,
                                    minute |-> start_time.val + duration.val],
                           uid |-> <<Lower(name_to_search.items[1]), shift_date>>])
        Start(shift_date) ==
            IF shift_date.exc # "none" THEN shift_date
            ELSE IF start_v.exc # "none" THEN start_v
            ELSE Event(shift_date.val, StrptimeHM(start_v.val))
    IN  IF date_v.exc # "none" THEN date_v
        ELSE Start(Strptime(date_v.val, "/", FALSE))

\* lines 17-31 from shift i on
RECURSIVE EventsFrom(_, _, _)
EventsFrom(shifts, name_to_search, i) ==
    LET Add(here, rest) ==
            IF here.exc # "none" THEN here
            ELSE IF rest.exc # "none" THEN rest
            ELSE Returned(<<here.val>> \o rest.val)
    IN  IF i > Len(shifts) THEN Returned(<<>>)
        ELSE Add(ShiftEvent(shifts[i], name_to_search),
                 EventsFrom(shifts, name_to_search, i + 1))

\* generate_ics(shifts, name_to_search): the events of the calendar
generate_ics(shifts, name_to_search) == EventsFrom(shifts, name_to_search, 1)

(***************************************************************************)
(* app.process_file: POST /api/process                                     *)
(***************************************************************************)
\* read_xls(file_stream): the visible, non-empty sheets, or the exception of
\* a stream that is no workbook
read_xls(file) ==
    LET Kept(sheet) == sheet.visible /\ ~IsEmptyDf(sheet.df)
        kept == SelectSeq(file.sheets, Kept)
    IN  IF ~file.workbook THEN Raised("ValueError")
        ELSE Returned([i \in 1..Len(kept) |->
                          [title |-> kept[i].title, df |-> kept[i].df]])

\* lines 100-107: the status the except clauses answer with
ExceptStatus(exc) == IF exc = "RequestException" THEN 400 ELSE 500

\* lines 95-107: 200 from the return of the try block, otherwise the status
\* of the except clause that catches exc
ResponseStatus(exc) == IF exc = "none" THEN 200 ELSE ExceptStatus(exc)

\* lines 86-99: generate_ics on the shifts found (sync_gmail, line 93, catches
\* whatever it raises)
ProcessShifts(shifts, name_to_search) ==
    IF shifts.exc # "none" THEN shifts.exc
    ELSE generate_ics(shifts.val, name_to_search).exc

\* lines 82-99: find_shifts on the sheets read
ProcessFrames(now, data_frames, name_to_search) ==
    IF data_frames.exc # "none" THEN data_frames.exc
    ELSE ProcessShifts(find_shifts(now, data_frames.val, name_to_search),
                       name_to_search)

\* lines 62-99: the body of the try block, as the exception raised or "none"
ProcessBody(now, data, download_ok, file) ==
    IF data.fileUrl = <<>> \/ data.name_to_search = <<>> THEN "HTTPException"
    ELSE IF ~download_ok THEN "RequestException"
    ELSE ProcessFrames(now, read_xls(file),
                       [single |-> TRUE, items |-> <<data.name_to_search>>])

\* process_file(data): the status code of the response. data is a
\* ProcessRequest, so both fields are strings (possibly empty).
process_file(now, data, download_ok, file) ==
    ResponseStatus(ProcessBody(now, data, download_ok, file))

(***************************************************************************)
(* Inputs of the parsing functions                                         *)
(***************************************************************************)
HourTexts == {<<"0">>,
     <<"9">>,
     <<"0", "1">>,
     <<"0", "9">>,
     <<"1", "7">>,
     <<"2", "3">>,
     <<"2", "4">>}
MinuteTexts == {<<"0", "0">>,
     <<"3", "0">>,
     <<"6", "0">>}
ClockTexts == {h \o <<":">> \o m : h \in HourTexts, m \in MinuteTexts}
RangeTexts == {a \o <<"-">> \o b : a \in ClockTexts, b \in ClockTexts}
PrefixTexts ==
    {<<>>,
     <<"o", "p", "e", "n", " ">>,
     <<"O", "p", "e", "n", " ">>,
     <<"C", "L", "O", "S", "E", " ">>,
     <<"F", "l", "e", "x", " ">>,
     <<"a", "m", " ">>}
SuffixTexts == {<<>>,
     <<" ">>,
     <<"p", "m">>}
OtherTimeValues ==
    {NaN, Num(9), Str(<<>>), Str(<<"n", "/", "a">>), Str(<<"9", "-", "1", "7">>),
     Str(<<" ", "0", "9", ":", "0", "0", "-", "1", "7", ":", "0", "0">>), Str(<<"o", "p", "e", "n">>),
     Str(<<"0", "9", ":", "0", "0", "-", "1", "7", ":", "0", "0", " ", "(", "1", "0", ":", "0", "0", "-", "1", "4", ":", "0", "0", ")">>),
     Str(<<"E", "m", "i", " ", "(", "1", "0", ":", "0", "0", "-", "1", "4", ":", "0", "0", ")">>),
     Str(<<"(", "2", "3", ":", "0", "0", "-", "0", "1", ":", "0", "0", ")">>)}
TimeValues ==
    {Str(p \o r \o x) : p \in PrefixTexts, r \in RangeTexts, x \in SuffixTexts}
        \cup OtherTimeValues

DayTexts ==
    {<<"1", "s", "t">>,
     <<"2", "n", "d">>,
     <<"1", "5", "t", "h">>,
     <<"2", "9", "t", "h">>,
     <<"3", "0", "t", "h">>,
     <<"3", "1", "s", "t">>,
     <<"0", "t", "h">>,
     <<"2">>,
     <<"x">>,
     <<"1", "2", "3", "r", "d">>}
MonthTexts ==
    {<<"J", "a", "n">>,
     <<"J", "a", "n", "u", "a", "r", "y">>,
     <<"F", "e", "b">>,
     <<"A", "p", "r">>,
     <<"A", "p", "r", "i", "l">>,
     <<"J", "u", "n">>,
     <<"D", "e", "c">>,
     <<"D", "e", "c", "e", "m", "b", "e", "r">>,
     <<"d", "e", "c">>,
     <<"F", "o", "o">>}
IsoTexts ==
    {<<"2", "0", "2", "5", "-", "0", "4", "-", "0", "1">>,
     <<"2", "0", "2", "4", "-", "0", "2", "-", "2", "9">>,
     <<"2", "0", "2", "5", "-", "0", "2", "-", "2", "9">>,
     <<"2", "0", "2", "5", "-", "1", "3", "-", "0", "1">>,
     <<"2", "0", "2", "4", "-", "1", "2", "-", "3", "1">>,
     <<"2", "0", "2", "6", "-", "0", "1", "-", "0", "1">>,
     <<"2", "0", "2", "5", "-", "4", "-", "1">>}
OtherDateValues ==
    {NaN, Num(5), Timestamp(2025, 4, 1), Str(APRIL_FOOLS), Str(<<>>),
     Str(<<"0", "2", "/", "0", "4", "/", "2", "0", "2", "5">>), Str(<<"2", "n", "d", " ", "o", "f", " ", "A", "p", "r", "i", "l">>),
     Str(<<"0", "9", ":", "0", "0">>)}
DateValues ==
    {Str(d \o <<" ">> \o m) : d \in DayTexts, m \in MonthTexts}
        \cup {Str(s) : s \in IsoTexts} \cup OtherDateValues

\* the instants at which fix_date is called: every month of two years
DateTodays == {[year |-> y, month |-> m, day |-> 15] : y \in {2024, 2025}, m \in 1..12}

Pending == [exc |-> "pending", val |-> <<>>]

TimeIdle == arg_shift_time = NaN /\ ret_details = Pending /\ ret_time_like = FALSE
DateIdle == arg_date_str = NaN /\ ret_fixed = Pending /\ ret_fixed_h = Pending
ScanIdle ==
    /\ arg_data_frames = <<>>
    /\ arg_names = [single |-> FALSE, items |-> <<>>]
    /\ ret_shifts = Pending
    /\ ret_ics = Pending
ApiIdle ==
    /\ arg_data = [fileUrl |-> <<>>, name_to_search |-> <<>>]
    /\ env_download_ok = FALSE
    /\ env_file = [workbook |-> FALSE, sheets |-> <<>>]
    /\ ret_status = 0
GridIdle ==
    /\ arg_date_positions = <<>>
    /\ ret_sections = <<>>
    /\ arg_df = <<>>
    /\ ret_dates = Pending

(***************************************************************************)
(* SpecTime: extract_shift_details and is_shift_time_like on one value      *)
(***************************************************************************)
InitTime ==
    /\ pc = "time_call"
    /\ today = [year |-> 2025, month |-> 6, day |-> 2]
    /\ arg_shift_time \in TimeValues
    /\ ret_details = Pending
    /\ ret_time_like = FALSE
    /\ DateIdle /\ ScanIdle /\ ApiIdle /\ GridIdle

ExtractShiftDetails ==
    /\ pc = "time_call"
    /\ ret_details' = extract_shift_details(arg_shift_time)
    /\ pc' = "time_extracted"
    /\ UNCHANGED <<today, arg_shift_time, ret_time_like, date_vars, scan_vars, api_vars, grid_vars>>

IsShiftTimeLike ==
    /\ pc = "time_extracted"
    /\ ret_time_like' = is_shift_time_like(arg_shift_time)
    /\ pc' = "time_done"
    /\ UNCHANGED <<today, arg_shift_time, ret_details, date_vars, scan_vars, api_vars, grid_vars>>

NextTime == ExtractShiftDetails \/ IsShiftTimeLike
SpecTime == InitTime /\ [][NextTime]_vars

(***************************************************************************)
(* SpecDate: both fix_date variants on one value                           *)
(***************************************************************************)
InitDate ==
    /\ pc = "date_call"
    /\ today \in DateTodays
    /\ arg_date_str \in DateValues
    /\ ret_fixed = Pending
    /\ ret_fixed_h = Pending
    /\ TimeIdle /\ ScanIdle /\ ApiIdle /\ GridIdle

FixDate ==
    /\ pc = "date_call"
    /\ ret_fixed' = fix_date(today, arg_date_str)
    /\ pc' = "date_fixed"
    /\ UNCHANGED <<today, arg_date_str, ret_fixed_h, time_vars, scan_vars, api_vars, grid_vars>>

HelpersFixDate ==
    /\ pc = "date_fixed"
    /\ ret_fixed_h' = helpers_fix_date(today, arg_date_str)
    /\ pc' = "date_done"
    /\ UNCHANGED <<today, arg_date_str, ret_fixed, time_vars, scan_vars, api_vars, grid_vars>>

NextDate == FixDate \/ HelpersFixDate
SpecDate == InitDate /\ [][NextDate]_vars

(***************************************************************************)
(* Inputs of find_shifts: roster grids of three rows and four columns.      *)
(* Row 0 is the header band, column 0 the label column of the first         *)
(* section; column 2 is a date column or the label column of a section      *)
(* that starts at column 3.                                                 *)
(***************************************************************************)
MaxSheets == 2

D_1Jun == Str(<<"1", "s", "t", " ", "J", "u", "n">>)
D_2Jun == Str(<<"2", "n", "d", " ", "J", "u", "n">>)
D_3Jun == Str(<<"3", "r", "d", " ", "J", "u", "n">>)
D_31Jun == Str(<<"3", "1", "s", "t", " ", "J", "u", "n">>)
T_Day == Str(<<"0", "9", ":", "0", "0", "-", "1", "7", ":", "0", "0">>)
T_Night == Str(<<"2", "3", ":", "0", "0", "-", "0", "1", ":", "0", "0">>)
T_NoClock == Str(<<"2", "4", ":", "0", "0", "-", "2", "5", ":", "0", "0">>)
N_Emi == Str(<<"E", "m", "i">>)
N_Bob == Str(<<"B", "o", "b">>)
N_EmiBob == Str(<<"E", "m", "i", "/", "B", "o", "b">>)

MkGrid(h1, h2, h3, l1, l2, n11, n21, c12, c13) ==
    << <<NaN, h1, h2, h3>>,
       <<l1, n11, c12, c13>>,
       <<l2, n21, NaN, NaN>> >>

Grids ==
    {MkGrid(h1, h2, h3, l1, l2, n11, n21, c12, c13) :
        h1 \in {D_1Jun, D_2Jun, D_3Jun, D_31Jun, Num(5)},
        h2 \in {NaN, D_2Jun, D_3Jun},
        h3 \in {NaN, D_2Jun},
        l1 \in {NaN, T_Day, T_NoClock},
        l2 \in {NaN, T_Night},
        n11 \in {NaN, N_Emi, N_EmiBob},
        n21 \in {NaN, N_Emi, N_Bob},
        c12 \in {NaN, N_Emi, T_Day},
        c13 \in {NaN, N_Emi}}

\* the sheets of a workbook of more than one sheet
SmallGrids ==
    {<<>>,
     << <<NaN, NaN>>, <<NaN, N_Emi>> >>,
     MkGrid(D_2Jun, NaN, NaN, T_Day, NaN, N_Emi, NaN, NaN, NaN),
     MkGrid(D_3Jun, NaN, NaN, NaN, T_Night, NaN, N_EmiBob, NaN, NaN),
     MkGrid(D_31Jun, NaN, NaN, T_Day, NaN, N_Emi, NaN, NaN, NaN),
     MkGrid(D_2Jun, Num(5), NaN, T_Day, NaN, N_Emi, NaN, NaN, NaN)}

SheetTitle(i) == <<"S">> \o IntToStr(i)
Workbook(dfs) == [i \in 1..Len(dfs) |-> [title |-> SheetTitle(i), df |-> dfs[i]]]
Workbooks ==
    {Workbook(<<g>>) : g \in Grids}
        \cup {Workbook(w) : w \in UNION {[1..n -> SmallGrids] : n \in 0..MaxSheets}}

NameArgs ==
    {[single |-> TRUE, items |-> <<<<"e", "m", "i">>>>],
     [single |-> FALSE, items |-> <<<<"E", "m", "i">>, <<"b", "o", "b">>>>],
     [single |-> FALSE, items |-> <<<<"e", "m", "i">>, <<"e", "m", "i">>>>],
     [single |-> FALSE, items |-> <<<<"b", "o", "b">>>>]}

ScanToday == [year |-> 2025, month |-> 6, day |-> 2]

(***************************************************************************)
(* Spec: find_shifts on a workbook, then generate_ics on what it returned   *)
(***************************************************************************)
Init ==
    /\ pc = "scan_call"
    /\ today = ScanToday
    /\ arg_data_frames \in Workbooks
    /\ arg_names \in NameArgs
    /\ ret_shifts = Pending
    /\ ret_ics = Pending
    /\ TimeIdle /\ DateIdle /\ ApiIdle /\ GridIdle

FindShifts ==
    /\ pc = "scan_call"
    /\ ret_shifts' = find_shifts(today, arg_data_frames, arg_names)
    /\ pc' = IF ret_shifts'.exc = "none" THEN "scan_returned" ELSE "scan_raised"
    /\ UNCHANGED <<today, arg_data_frames, arg_names, ret_ics,
                   time_vars, date_vars, api_vars, grid_vars>>

GenerateIcs ==
    /\ pc = "scan_returned"
    /\ ret_ics' = generate_ics(ret_shifts.val, arg_names)
    /\ pc' = "ics_done"
    /\ UNCHANGED <<today, arg_data_frames, arg_names, ret_shifts,
                   time_vars, date_vars, api_vars, grid_vars>>

Next == FindShifts \/ GenerateIcs
Spec == Init /\ [][Next]_vars


(***************************************************************************)
(* SpecApi: one POST /api/process request                                   *)
(***************************************************************************)
Requests ==
    [fileUrl : {<<>>, <<"h", "t", "t", "p", ":", "/", "/", "x", "/", "r", ".", "x", "l", "s", "x">>},
     name_to_search : {<<>>, <<"e", "m", "i">>, <<"B", "o", "b">>}]
FileSheets ==
    UNION {[1..n -> [title : {<<"0", "2", "/", "0", "6", "-", "0", "8", "/", "0", "6">>}, df : SmallGrids, visible : BOOLEAN]] :
            n \in 0..MaxSheets}
Files ==
    {[workbook |-> FALSE, sheets |-> <<>>]}
        \cup {[workbook |-> TRUE, sheets |-> s] : s \in FileSheets}

InitApi ==
    /\ pc = "api_call"
    /\ today = ScanToday
    /\ arg_data \in Requests
    /\ env_download_ok \in BOOLEAN
    /\ env_file \in Files
    /\ ret_status = 0
    /\ TimeIdle /\ DateIdle /\ ScanIdle /\ GridIdle

ProcessFile ==
    /\ pc = "api_call"
    /\ ret_status' = process_file(today, arg_data, env_download_ok, env_file)
    /\ pc' = "api_done"
    /\ UNCHANGED <<today, arg_data, env_download_ok, env_file,
                   time_vars, date_vars, scan_vars, grid_vars>>

NextApi == ProcessFile
SpecApi == InitApi /\ [][NextApi]_vars

(***************************************************************************)
(* SpecGroup: group_dates_into_sections on the date positions of one header *)
(* row, in any order                                                        *)
(***************************************************************************)
MaxCol == 9
MaxDates == 4

\* the date positions of row 0 at the columns cols
PositionsAt(cols) == [i \in 1..Len(cols) |-> Pos(0, cols[i], D_2Jun)]

\* lists of distinct columns, and the columns of the documented example
DateColumnLists ==
    {cols \in UNION {[1..n -> 0..MaxCol] : n \in 0..MaxDates} :
        \A i \in 1..Len(cols) : \A j \in 1..Len(cols) : i # j => cols[i] # cols[j]}
        \cup {<<2, 3, 4, 8, 9>>}

InitGroup ==
    /\ pc = "group_call"
    /\ today = ScanToday
    /\ arg_date_positions \in {PositionsAt(cols) : cols \in DateColumnLists}
    /\ ret_sections = <<>>
    /\ arg_df = <<>>
    /\ ret_dates = Pending
    /\ TimeIdle /\ DateIdle /\ ScanIdle /\ ApiIdle

GroupDatesIntoSections ==
    /\ pc = "group_call"
    /\ ret_sections' = group_dates_into_sections(arg_date_positions)
    /\ pc' = "group_done"
    /\ UNCHANGED <<today, arg_date_positions, arg_df, ret_dates,
                   time_vars, date_vars, scan_vars, api_vars>>

NextGroup == GroupDatesIntoSections
SpecGroup == InitGroup /\ [][NextGroup]_vars

(***************************************************************************)
(* SpecDates: find_dates on a sheet of up to MaxRows rows of two columns    *)
(***************************************************************************)
MaxRows == 6

HeaderRows ==
    {<<NaN, NaN>>, <<NaN, D_2Jun>>, <<D_2Jun, D_3Jun>>, <<N_Emi, NaN>>,
     <<Num(5), D_2Jun>>}
\* the rows below the header rows are empty or hold dates
BodyRows == {<<NaN, NaN>>, <<D_2Jun, D_3Jun>>}
HeaderGrids ==
    UNION {{g \in [1..n -> HeaderRows] :
               \A r \in 1..n : r > MAX_DATE_ROWS => g[r] \in BodyRows} :
           n \in 0..MaxRows}

InitDates ==
    /\ pc = "dates_call"
    /\ today = ScanToday
    /\ arg_df \in HeaderGrids
    /\ ret_dates = Pending
    /\ arg_date_positions = <<>>
    /\ ret_sections = <<>>
    /\ TimeIdle /\ DateIdle /\ ScanIdle /\ ApiIdle

FindDates ==
    /\ pc = "dates_call"
    /\ ret_dates' = find_dates(today, arg_df)
    /\ pc' = "dates_done"
    /\ UNCHANGED <<today, arg_df, arg_date_positions, ret_sections,
                   time_vars, date_vars, scan_vars, api_vars>>

NextDates == FindDates
SpecDates == InitDates /\ [][NextDates]_vars

(***************************************************************************)
(* Properties of the shift-time parser (SpecTime)                          *)
(***************************************************************************)
\* The claims' own reading of a token, independent of the parser's regex:
\* a clock is H:MM or HH:MM, a range is clock-clock.
ClockForm(s) ==
    LET f == SplitOn(s, ":")
    IN  Len(f) = 2 /\ Len(f[1]) \in {1, 2} /\ AllDigits(f[1])
        /\ Len(f[2]) = 2 /\ AllDigits(f[2])
RangeForm(s) ==
    LET f == SplitOn(s, "-") IN Len(f) = 2 /\ ClockForm(f[1]) /\ ClockForm(f[2])
ClockHour(s) == StrToInt(SplitOn(s, ":")[1])
ClockMinute(s) == StrToInt(SplitOn(s, ":")[2])
ValidClock(s) == ClockHour(s) \in 0..23 /\ ClockMinute(s) \in 0..59
ClockMinutes(s) == 60 * ClockHour(s) + ClockMinute(s)
RangeStart(s) == SplitOn(s, "-")[1]
RangeEnd(s) == SplitOn(s, "-")[2]
ValidRange(s) == RangeForm(s) /\ ValidClock(RangeStart(s)) /\ ValidClock(RangeEnd(s))
\* the prefixes of s that are ranges (at most one)
LeadingRanges(s) == {SubSeq(s, 1, k) : k \in {j \in 1..Len(s) : RangeForm(SubSeq(s, 1, j))}}
TimeCalled == pc \in {"time_extracted", "time_done"}
ConfiguredPrefixes == {<<"o", "p", "e", "n">>, <<"c", "l", "o", "s", "e">>, <<"f", "l", "e", "x">>}
\* arg_shift_time is p + " " + r for a configured prefix p (any case) and a
\* valid range r
PrefixedRange(p) ==
    /\ IsStr(arg_shift_time)
    /\ StartsWith(Lower(arg_shift_time.s), p \o <<" ">>)
    /\ ValidRange(SubSeq(arg_shift_time.s, Len(p) + 2, Len(arg_shift_time.s)))
UnprefixedPart(p) == SubSeq(arg_shift_time.s, Len(p) + 2, Len(arg_shift_time.s))

EmbeddedRanges(s) ==
    {SubSeq(s, i + 1, j - 1) :
        <<i, j>> \in {p \in (1..Len(s)) \X (1..Len(s)) :
                        /\ p[1] < p[2] /\ s[p[1]] = "(" /\ s[p[2]] = ")"
                        /\ ValidRange(SubSeq(s, p[1] + 1, p[2] - 1))}}

\* C13: for a token that holds a parenthesized sub-range (H:MM-H:MM), the
\* start time and the duration returned are those of the sub-range, not those
\* of the text outside the parentheses.
C13_EmbeddedOverride ==
    (TimeCalled /\ IsStr(arg_shift_time)) =>
        \A r \in EmbeddedRanges(arg_shift_time.s) :
            /\ ret_details.exc = "none"
            /\ ~ret_details.val.none
            /\ ClockMinutes(ret_details.val.start) = ClockMinutes(RangeStart(r))
            /\ ret_details.val.duration =
                   (ClockMinutes(RangeEnd(r)) - ClockMinutes(RangeStart(r))) % (24 * 60)

(***************************************************************************)
(* Properties of fix_date (SpecDate)                                       *)
(***************************************************************************)
DateCalled == pc \in {"date_fixed", "date_done"}
\* arg_date_str is a day-plus-month token: two words, digits in the first
DayMonthToken ==
    /\ IsStr(arg_date_str)
    /\ Len(Split(arg_date_str.s)) = 2
    /\ FilterDigits(Split(arg_date_str.s)[1]) # <<>>
TokenMonth == Split(arg_date_str.s)[2]
IsoToken == IsStr(arg_date_str) /\ IsoShape(arg_date_str.s)
December == {<<"D", "e", "c">>, <<"D", "e", "c", "e", "m", "b", "e", "r">>}
January == {<<"J", "a", "n">>, <<"J", "a", "n", "u", "a", "r", "y">>}
\* the year the claim gives a day-plus-month token
ClaimedYear ==
    CASE today.month \in {1, 2, 3} /\ TokenMonth \in December -> today.year - 1
      [] today.month \in {10, 11, 12} /\ TokenMonth \in January -> today.year + 1
      [] OTHER -> today.year
\* the fields of a returned 'DD/MM/YYYY'
FixedDay(r) == SplitOn(r.val, "/")[1]
FixedMonth(r) == SplitOn(r.val, "/")[2]
FixedYear(r) == SplitOn(r.val, "/")[3]

\* C9: a day-plus-month token gets currentYear - 1 for December seen from
\* January..March, currentYear + 1 for January seen from October..December,
\* currentYear otherwise (both fix_date variants); an ISO token keeps its year.
C9_YearInference ==
    /\ (DateCalled /\ DayMonthToken /\ ret_fixed.exc = "none") =>
            StrToInt(FixedYear(ret_fixed)) = ClaimedYear
    /\ (pc = "date_done" /\ DayMonthToken /\ ret_fixed_h.exc = "none") =>
            StrToInt(FixedYear(ret_fixed_h)) = ClaimedYear
    /\ (DateCalled /\ IsoToken /\ ret_fixed.exc = "none") =>
            FixedYear(ret_fixed) = SubSeq(arg_date_str.s, 1, 4)

C9_Witness ==
    /\ pc = "date_done"
    /\ today.month = 2
    /\ arg_date_str = Str(<<"1", "5", "t", "h", " ", "D", "e", "c">>)
    /\ ret_fixed = Returned(<<"1", "5", "/", "1", "2", "/">> \o IntToStr(today.year - 1))
    /\ ret_fixed_h = ret_fixed

\* C10: a value fix_date returns for a day-plus-month or ISO token is a date
\* of the calendar: month 1..12 and day 1..days of that month and year.
C10_ValidCalendarDate ==
    (DateCalled /\ (DayMonthToken \/ IsoToken) /\ ret_fixed.exc = "none") =>
        /\ Len(FixedDay(ret_fixed)) = 2
        /\ ValidDate(StrToInt(FixedYear(ret_fixed)), StrToInt(FixedMonth(ret_fixed)),
                     StrToInt(FixedDay(ret_fixed)))

(***************************************************************************)
(* Properties of find_shifts and generate_ics (Spec)                        *)
(***************************************************************************)
ScanReturned == pc \in {"scan_returned", "ics_done"}
\* the calendar date of a record's 'DD/MM/YYYY'
RecordDate(r) ==
    LET f == SplitOn(r["Date"], "/")
    IN  [year |-> StrToInt(f[3]), month |-> StrToInt(f[2]), day |-> StrToInt(f[1])]
EmiOnly == [single |-> TRUE, items |-> <<<<"e", "m", "i">>>>]

\* C1: the returned list is sorted ascending by date: for positions i < j the
\* date of record i is not later than the date of record j.
C1_SortedByDate ==
    ScanReturned =>
        \A i \in 1..Len(ret_shifts.val) : \A j \in 1..Len(ret_shifts.val) :
            i < j => ~DateBefore(RecordDate(ret_shifts.val[j]), RecordDate(ret_shifts.val[i]))

\* C2: the returned list holds at most one record per (name, date) pair.
C2_OnePerNameAndDate ==
    ScanReturned =>
        \A i \in 1..Len(ret_shifts.val) : \A j \in 1..Len(ret_shifts.val) :
            (i # j) => ~(/\ ret_shifts.val[i]["Name"] = ret_shifts.val[j]["Name"]
                         /\ ret_shifts.val[i]["Date"] = ret_shifts.val[j]["Date"])

\* C3: find_shifts ends by returning a list, whatever the cells hold; it never
\* raises.
C3_NeverRaises == (pc # "scan_call") => ret_shifts.exc = "none"

\* C4: no returned record has a date before today's date.
C4_NoPastRecord ==
    ScanReturned =>
        \A i \in 1..Len(ret_shifts.val) : ~DateBefore(RecordDate(ret_shifts.val[i]), today)

\* a sheet whose first date (1st Jun) is past, with a searched name in its
\* primary row, next to today's date: only today's record is returned
C4_Witness ==
    /\ pc = "scan_returned"
    /\ arg_data_frames =
           Workbook(<<MkGrid(D_1Jun, D_2Jun, NaN, T_Day, NaN, N_Emi, NaN, N_Emi, NaN)>>)
    /\ arg_names = EmiOnly
    /\ Len(ret_shifts.val) = 1
    /\ ret_shifts.val[1]["Date"] = <<"0", "2", "/", "0", "6", "/", "2", "0", "2", "5">>

\* C5: generate_ics takes any list find_shifts returned (for one searched
\* name, as the handler calls it) and builds one event per record without
\* failing.
C5_IcsConsumesRecords ==
    (pc = "ics_done" /\ arg_names.single) =>
        /\ ret_ics.exc = "none"
        /\ Len(ret_ics.val) = Len(ret_shifts.val)

\* One roster sheet of three rows whose date of column 1 is today's or a
\* later date and stands in no other column: row 1 is its primary row, row 2
\* the row below, column 0 holds the shift-time labels of both.
RosterDf == arg_data_frames[1].df
RosterDate ==
    CASE Cell(RosterDf, 0, 1) = D_2Jun -> <<"0", "2", "/", "0", "6", "/", "2", "0", "2", "5">>
      [] Cell(RosterDf, 0, 1) = D_3Jun -> <<"0", "3", "/", "0", "6", "/", "2", "0", "2", "5">>
      [] OTHER -> <<>>
OneCurrentDate ==
    /\ Len(arg_data_frames) = 1
    /\ NRows(RosterDf) = 3 /\ NCols(RosterDf) = 4
    /\ RosterDate # <<>>
    /\ Cell(RosterDf, 0, 2) # Cell(RosterDf, 0, 1)
    /\ Cell(RosterDf, 0, 3) # Cell(RosterDf, 0, 1)
\* the searched employees, lower-cased, each searched once
SearchedNames == {Lower(arg_names.items[i]) : i \in 1..Len(arg_names.items)}
SearchedOnce == Cardinality(SearchedNames) = Len(arg_names.items)
\* the name cell of the row holds the name; the row has a resolvable time
NamedInRow(name, row) ==
    /\ IsStr(Cell(RosterDf, row, 1))
    /\ Contains(Lower(Cell(RosterDf, row, 1).s), name)
ResolvableRow(row) ==
    IsStr(Cell(RosterDf, row, 0)) /\ ValidRange(Cell(RosterDf, row, 0).s)
\* the returned records of the employee for the date of column 1
RecordsOf(name) ==
    {i \in 1..Len(ret_shifts.val) :
        ret_shifts.val[i]["Name"] = name /\ ret_shifts.val[i]["Date"] = RosterDate}

\* C12: for the date of column 1, an employee named in the primary row (row
\* 1) that has a resolvable time gets exactly one record, the one of the
\* primary row; every other searched employee, and every employee when the
\* primary row's time is not resolvable, gets a record from the row below
\* when named there with a resolvable time.
C12_PrimaryPerEmployee ==
    (ScanReturned /\ OneCurrentDate /\ SearchedOnce) =>
        \A name \in SearchedNames :
            /\ (NamedInRow(name, 1) /\ ResolvableRow(1)) =>
                   /\ Cardinality(RecordsOf(name)) = 1
                   /\ \A i \in RecordsOf(name) :
                          ret_shifts.val[i]["Shift Time"] = Cell(RosterDf, 1, 0).s
            /\ (~(NamedInRow(name, 1) /\ ResolvableRow(1))
                    /\ NamedInRow(name, 2) /\ ResolvableRow(2)) =>
                   \E i \in RecordsOf(name) :
                       ret_shifts.val[i]["Shift Time"] = Cell(RosterDf, 2, 0).s

(***************************************************************************)
(* Properties of process_file (SpecApi)                                     *)
(***************************************************************************)
InputMissing == arg_data.fileUrl = <<>> \/ arg_data.name_to_search = <<>>

\* C6: the answer is 400 when fileUrl or name_to_search is missing or empty
\* and when the download fails; 500 only for a failure while processing the
\* downloaded file.
C6_StatusCodes ==
    (pc = "api_done") =>
        /\ InputMissing => ret_status = 400
        /\ (~InputMissing /\ ~env_download_ok) => ret_status = 400
        /\ ret_status = 500 => (~InputMissing /\ env_download_ok)

(***************************************************************************)
(* Properties of group_dates_into_sections (SpecGroup)                      *)
(***************************************************************************)
\* the sections one after the other
RECURSIVE Flatten(_)
Flatten(sections) ==
    IF sections = <<>> THEN <<>> ELSE Head(sections) \o Flatten(Tail(sections))
\* the positions ps, of distinct columns, in ascending order of column
ByColumn(ps) ==
    [i \in 1..Len(ps) |->
        ps[CHOOSE k \in 1..Len(ps) :
               Cardinality({j \in 1..Len(ps) : ps[j].col < ps[k].col}) = i - 1]]
ColumnsOf(ps) == [i \in 1..Len(ps) |-> ps[i].col]

\* C11: the sections concatenated in order are the input positions sorted by
\* column; inside a section columns strictly increase by steps of at most 1;
\* a later section starts more than 1 beyond the end of the one before; no
\* section is empty; columns [2,3,4,8,9] give [[2,3,4],[8,9]] and an empty
\* input gives no section.
C11_SectionsPartition ==
    pc = "group_done" =>
        /\ Flatten(ret_sections) = ByColumn(arg_date_positions)
        /\ \A k \in 1..Len(ret_sections) :
               /\ ret_sections[k] # <<>>
               /\ \A i \in 1..(Len(ret_sections[k]) - 1) :
                      /\ ret_sections[k][i].col < ret_sections[k][i + 1].col
                      /\ ret_sections[k][i + 1].col - ret_sections[k][i].col <= 1
               /\ k > 1 =>
                      ret_sections[k][1].col
                          - ret_sections[k - 1][Len(ret_sections[k - 1])].col > 1
        /\ arg_date_positions = <<>> => ret_sections = <<>>
        /\ ColumnsOf(arg_date_positions) = <<2, 3, 4, 8, 9>> =>
               ret_sections = <<PositionsAt(<<2, 3, 4>>), PositionsAt(<<8, 9>>)>>

\* unsorted columns 8, 2, 3 grouped into [[2,3],[8]]
C11_Witness ==
    /\ pc = "group_done"
    /\ ColumnsOf(arg_date_positions) = <<8, 2, 3>>
    /\ ret_sections = <<PositionsAt(<<2, 3>>), PositionsAt(<<8>>)>>

(***************************************************************************)
(* Properties of find_dates (SpecDates)                                     *)
(***************************************************************************)
\* the cell parses as a date
DateLikeCell(v) ==
    is_date_like(today, v).exc = "none" /\ is_date_like(today, v).val # <<>>
\* the rows among 0..4 of the sheet that have a date-like cell
DatedRows ==
    {r \in 0..4 : r < NRows(arg_df)
                  /\ \E c \in 0..(NCols(arg_df) - 1) : DateLikeCell(Cell(arg_df, r, c))}
FirstDatedRow == CHOOSE r \in DatedRows : \A q \in DatedRows : r <= q

\* C14: what find_dates returns are the date-like cells of one row, the first
\* row among rows 0..4 that has a date-like cell: every date-like cell of that
\* row and nothing else, so no cell of row 5 or below; with no such row the
\* result is empty.
C14_SingleHeaderBand ==
    (pc = "dates_done" /\ ret_dates.exc = "none") =>
        /\ DatedRows = {} => ret_dates.val = <<>>
        /\ DatedRows # {} =>
               /\ ret_dates.val # <<>>
               /\ \A i \in 1..Len(ret_dates.val) :
                      /\ ret_dates.val[i].row = FirstDatedRow
                      /\ ret_dates.val[i].row < 5
                      /\ ret_dates.val[i].value =
                             Cell(arg_df, FirstDatedRow, ret_dates.val[i].col)
                      /\ DateLikeCell(ret_dates.val[i].value)
               /\ \A c \in 0..(NCols(arg_df) - 1) :
                      DateLikeCell(Cell(arg_df, FirstDatedRow, c)) =>
                          \E i \in 1..Len(ret_dates.val) : ret_dates.val[i].col = c

\* a date in row 1, more dates in rows 2 and 5: only the cell of row 1 is
\* returned
C14_Witness ==
    /\ pc = "dates_done"
    /\ arg_df = << <<NaN, NaN>>, <<NaN, D_2Jun>>, <<D_2Jun, D_3Jun>>, <<NaN, NaN>>,
                   <<NaN, NaN>>, <<D_2Jun, D_3Jun>> >>
    /\ ret_dates = Returned(<<Pos(1, 1, D_2Jun)>>)

====
